---- MODULE Spec2Model ----
(***************************************************************************)
(* Token providers of foundry_dev_tools/config/token_provider.py:          *)
(* TokenProvider, JWTTokenProvider, CachedTokenProvider,                   *)
(* OAuthTokenProvider and AppServiceTokenProvider, driven by one caller    *)
(* (Spec, SpecAuth, SpecSkew, SpecAppService), several instances side by   *)
(* side (SpecInstances), the threads of concurrent callers (SpecRace,      *)
(* SpecThreads), and the scopes and TOKEN_PROVIDER_MAPPING (SpecConfig).   *)
(* `now` is what time.time() returns; it never goes back.  It moves        *)
(* between the operations (Tick) and while a token request is under way.   *)
(***************************************************************************)
EXTENDS Integers, Sequences, FiniteSets, TLC

VARIABLES
    now,          \* what time.time() returns now
    self,         \* the provider instance (its attributes), or NoProvider
    t0,           \* the clock reading of the successful construction, -1 before
    last,         \* the last operation: its name, arguments, outcome and the
                  \* number of calls of _request_token it made
    registry,     \* TOKEN_PROVIDER_MAPPING, once the module is loaded
    scoped,       \* the last OAuthTokenProvider(..., scopes) and its self.scopes
    instances,    \* several providers side by side: the attributes of each
    who,          \* the one of `instances` the last operation was called on
    threads,      \* concurrent callers of one provider: where each one is in
                  \* token() or invalidate_cache(), and its local values
    issued,       \* the expiry of every token request so far, in order
    floor         \* the number of token requests begun before the start of
                  \* an invalidate_cache() that has returned (the most of
                  \* them), -1 when none has returned

\* the variables of the module load, of the scopes, of the other instances
\* and of the threads, which the operations of the one caller leave alone
others == <<registry, scoped, instances, who, threads, issued, floor>>

vars == <<now, self, t0, last, registry, scoped, instances, who, threads, issued, floor>>

\* the providers constructed side by side
Instances == {1, 2}

\* the threads calling one provider
Threads == {1, 2}

\* a thread that is in no call
IdleThread ==
    [pc |-> "idle", op |-> "none", saw |-> "None", acq |-> 0, tok |-> "None",
     exp |-> -1, ok |-> TRUE, ret |-> "None", seen |-> -1, mark |-> 0]

-----------------------------------------------------------------------------
(* Bounds of the model.  The clock takes the instants of three windows:    *)
(* 0..EarlyMax (construction and first use), and Slack seconds around      *)
(* each of the two instants one hour of lifetime leads to.                 *)

EarlyMax == 0
Slack == 1

\* the longest a token request may take, in seconds
MaxLatency == 1

(* Values *)

None == "None"

\* Python truthiness of `Token | None`: None and the empty string are falsy
Truthy(v) == v # None /\ v # ""

\* the literal margin of CachedTokenProvider.token
REFRESH_MARGIN == 10

\* the lifetime AppServiceTokenProvider.__init__ gives the header token
APP_SERVICE_LIFETIME == 3600

\* CachedTokenProvider._clock_skew
_clock_skew == 10

\* CachedTokenProvider._valid_until before any acquisition
UNSET_VALID_UNTIL == -1

\* the instants the clock takes
TimePoints ==
    (0 .. EarlyMax)
    \cup ((APP_SERVICE_LIFETIME - REFRESH_MARGIN) .. (APP_SERVICE_LIFETIME - REFRESH_MARGIN + Slack))
    \cup (APP_SERVICE_LIFETIME .. (APP_SERVICE_LIFETIME + Slack))

\* tokens the OAuth service may issue (Token is an opaque str, "" included)
Tokens == {"", "T1", "T2"}

\* lifetimes the OAuth service may grant, in seconds
ExpiresIn == {5, 3600}

JWTs == {"J1", "J2"}

Secrets == {None, "xyz"}

\* what a caller may pass as grant_type
GrantTypeArgs == {None, "authorization_code", "client_credentials", "device_code"}

-----------------------------------------------------------------------------
(* FoundryOAuthGrantType (config_types): the conversion of the grant_type  *)
(* argument to a member of the enumeration.                                *)

FoundryOAuthGrantType(v) == "FoundryOAuthGrantType." \o v

authorization_code == FoundryOAuthGrantType("authorization_code")

client_credentials == FoundryOAuthGrantType("client_credentials")

-----------------------------------------------------------------------------
(* The provider instance.  kind is the class of the instance; the other    *)
(* fields are its attributes, None where the class does not set them.      *)
(* `token` is the slot functools.cached_property fills on the instance.    *)

NoProvider ==
    [kind |-> "none", _jwt |-> None, token |-> None, grant_type |-> None,
     _client_secret |-> None, _cached |-> None, _valid_until |-> UNSET_VALID_UNTIL,
     _clock_skew |-> _clock_skew]

\* JWTTokenProvider.__init__
JWTTokenProvider_init(jwt) ==
    [NoProvider EXCEPT !.kind = "jwt", !._jwt = jwt]

\* a bug: the slot is read before it has been filled
JWTTokenProvider_token_unfilled(p) ==
    [self |-> [p EXCEPT !.token = p._jwt], ok |-> TRUE, val |-> p.token, acq |-> 0]

\* JWTTokenProvider.token, a cached_property: computed from _jwt on the first
\* access, read from the instance's slot afterwards
JWTTokenProvider_token(p) ==
    IF p.token # None
    THEN [self |-> p, ok |-> TRUE, val |-> p.token, acq |-> 0]
    ELSE [self |-> [p EXCEPT !.token = p._jwt], ok |-> TRUE, val |-> p._jwt, acq |-> 0]

\* a bug: the secret is not asked for at construction
OAuthTokenProvider_init_unchecked(client_secret, grant_type) ==
    [ok |-> TRUE, err |-> None,
     self |-> [NoProvider EXCEPT
                 !.kind = "oauth",
                 !.grant_type = FoundryOAuthGrantType(IF Truthy(grant_type) THEN grant_type
                                                      ELSE "authorization_code"),
                 !._client_secret = client_secret]]

\* a bug: a grant type without an acquisition branch is refused at construction
OAuthTokenProvider_init_strict(client_secret, grant_type) ==
    LET gt == FoundryOAuthGrantType(IF Truthy(grant_type) THEN grant_type
                                    ELSE "authorization_code")
    IN  IF gt = client_credentials /\ client_secret = None
        THEN [ok |-> FALSE, err |-> "TokenProviderConfigError", self |-> NoProvider]
        ELSE IF gt \notin {authorization_code, client_credentials}
        THEN [ok |-> FALSE, err |-> "NotImplementedError", self |-> NoProvider]
        ELSE [ok |-> TRUE, err |-> None,
              self |-> [NoProvider EXCEPT !.kind = "oauth", !.grant_type = gt,
                                          !._client_secret = client_secret]]

\* OAuthTokenProvider.__init__ (grant type and secret; the scopes are apart)
OAuthTokenProvider_init(client_secret, grant_type) ==
    LET gt == FoundryOAuthGrantType(IF Truthy(grant_type) THEN grant_type
                                    ELSE "authorization_code")
    IN  IF gt = client_credentials /\ client_secret = None
        THEN [ok |-> FALSE, err |-> "TokenProviderConfigError", self |-> NoProvider]
        ELSE [ok |-> TRUE, err |-> None,
              self |-> [NoProvider EXCEPT !.kind = "oauth", !.grant_type = gt,
                                          !._client_secret = client_secret]]

(* What the outside world answers to one token request:                    *)
(*   status "raise": the OAuth client or the HTTP request raises;          *)
(*   status "error": the token endpoint's JSON carries "error";            *)
(*   status "ok": a token with a lifetime; `clock` is the reading of       *)
(*   time.time() when the answer has arrived.                              *)
Answers(t) ==
    {[status |-> "raise", token |-> None, expires_in |-> 0, clock |-> t],
     [status |-> "error", token |-> None, expires_in |-> 0, clock |-> t]}
    \cup
    [status : {"ok"}, token : Tokens, expires_in : ExpiresIn,
     clock : {c \in TimePoints : t <= c /\ c <= t + MaxLatency}]

Acquired(token, expiry, clock) ==
    [ok |-> TRUE, token |-> token, expiry |-> expiry, err |-> None, clock |-> clock]

Failed(err, clock) ==
    [ok |-> FALSE, token |-> None, expiry |-> UNSET_VALID_UNTIL, err |-> err, clock |-> clock]

\* OAuthTokenProvider._request_token
OAuthTokenProvider_request_token(p, a) ==
    IF p.grant_type = authorization_code
    THEN IF a.status = "ok"
         THEN Acquired(a.token, a.clock + a.expires_in, a.clock)
         ELSE Failed("OAuthError", a.clock)
    ELSE IF p.grant_type = client_credentials /\ p._client_secret # None
    THEN IF a.status = "raise" THEN Failed("ConnectionError", a.clock)
         ELSE IF a.status = "error" THEN Failed("FoundryAPIError", a.clock)
         ELSE Acquired(a.token, a.expires_in + a.clock, a.clock)
    ELSE IF p._client_secret = None
    THEN Failed("AttributeError", a.clock)
    ELSE Failed("NotImplementedError", a.clock)

\* a bug: the header token is handed out for another hour
AppServiceTokenProvider_request_token_renews(p, a) ==
    Acquired(p._cached, a.clock + 3600, a.clock)

\* AppServiceTokenProvider._request_token
AppServiceTokenProvider_request_token(p, a) ==
    Failed("TokenProviderConfigError", a.clock)

\* self._request_token(), dispatched on the class of the instance
_request_token(p, a) ==
    IF p.kind = "oauth" THEN OAuthTokenProvider_request_token(p, a)
    ELSE AppServiceTokenProvider_request_token(p, a)

\* a bug: a record that expires in exactly the margin counts as expired
CachedTokenProvider_token_lte(p, t, a) ==
    IF ~Truthy(p._cached) \/ p._valid_until <= t + REFRESH_MARGIN
    THEN LET r == _request_token(p, a)
         IN  IF r.ok
             THEN [self |-> [p EXCEPT !._cached = r.token, !._valid_until = r.expiry],
                   ok |-> TRUE, val |-> r.token, acq |-> 1, clock |-> r.clock]
             ELSE [self |-> p, ok |-> FALSE, val |-> r.err, acq |-> 1, clock |-> r.clock]
    ELSE [self |-> p, ok |-> TRUE, val |-> p._cached, acq |-> 0, clock |-> t]

\* a bug: the expiry is compared with the clock alone, without the margin
CachedTokenProvider_token_no_margin(p, t, a) ==
    IF ~Truthy(p._cached) \/ p._valid_until < t
    THEN LET r == _request_token(p, a)
         IN  IF r.ok
             THEN [self |-> [p EXCEPT !._cached = r.token, !._valid_until = r.expiry],
                   ok |-> TRUE, val |-> r.token, acq |-> 1, clock |-> r.clock]
             ELSE [self |-> p, ok |-> FALSE, val |-> r.err, acq |-> 1, clock |-> r.clock]
    ELSE [self |-> p, ok |-> TRUE, val |-> p._cached, acq |-> 0, clock |-> t]

\* a bug: the record is cleared before the request, so a failure loses it
CachedTokenProvider_token_clears_first(p, t, a) ==
    IF ~Truthy(p._cached) \/ p._valid_until < t + REFRESH_MARGIN
    THEN LET r == _request_token(p, a)
         IN  IF r.ok
             THEN [self |-> [p EXCEPT !._cached = r.token, !._valid_until = r.expiry],
                   ok |-> TRUE, val |-> r.token, acq |-> 1, clock |-> r.clock]
             ELSE [self |-> [p EXCEPT !._cached = None, !._valid_until = -1],
                   ok |-> FALSE, val |-> r.err, acq |-> 1, clock |-> r.clock]
    ELSE [self |-> p, ok |-> TRUE, val |-> p._cached, acq |-> 0, clock |-> t]

\* a bug: the margin is read from the attribute _clock_skew
CachedTokenProvider_token_skew(p, t, a) ==
    IF ~Truthy(p._cached) \/ p._valid_until < t + p._clock_skew
    THEN LET r == _request_token(p, a)
         IN  IF r.ok
             THEN [self |-> [p EXCEPT !._cached = r.token, !._valid_until = r.expiry],
                   ok |-> TRUE, val |-> r.token, acq |-> 1, clock |-> r.clock]
             ELSE [self |-> p, ok |-> FALSE, val |-> r.err, acq |-> 1, clock |-> r.clock]
    ELSE [self |-> p, ok |-> TRUE, val |-> p._cached, acq |-> 0, clock |-> t]

\* CachedTokenProvider.token at clock reading t
CachedTokenProvider_token(p, t, a) ==
    IF ~Truthy(p._cached) \/ p._valid_until < t + REFRESH_MARGIN
    THEN LET r == _request_token(p, a)
         IN  IF r.ok
             THEN [self |-> [p EXCEPT !._cached = r.token, !._valid_until = r.expiry],
                   ok |-> TRUE, val |-> r.token, acq |-> 1, clock |-> r.clock]
             ELSE [self |-> p, ok |-> FALSE, val |-> r.err, acq |-> 1, clock |-> r.clock]
    ELSE [self |-> p, ok |-> TRUE, val |-> p._cached, acq |-> 0, clock |-> t]

\* a bug: the token is cleared and the expiry is left
invalidate_cache_token_only(p) ==
    [p EXCEPT !._cached = None]

\* CachedTokenProvider.invalidate_cache
invalidate_cache(p) ==
    [p EXCEPT !._cached = None, !._valid_until = -1]

\* self.token, dispatched on the class of the instance
token(p, t, a) ==
    IF p.kind = "jwt"
    THEN JWTTokenProvider_token(p) @@ [clock |-> t]
    ELSE CachedTokenProvider_token(p, t, a)

-----------------------------------------------------------------------------
(* Headers.  A case-insensitive mapping (requests' CaseInsensitiveDict,    *)
(* the headers of a flask request) is a function from the lower-cased name *)
(* to the name as it was written and the value.                            *)

\* str.lower on the header names of this model
Lower(name) ==
    CASE name = "Authorization" -> "authorization"
      [] name = "AUTHORIZATION" -> "authorization"
      [] name = "X-Foundry-AccessToken" -> "x-foundry-accesstoken"
      [] name = "X-Foundry-Accesstoken" -> "x-foundry-accesstoken"
      [] name = "Accept" -> "accept"
      [] OTHER -> name

EmptyHeaders == [k \in {} |-> [key |-> "", val |-> ""]]

\* a bug: the name is looked up as it is written
Contains_as_written(d, name) == \E k \in DOMAIN d : d[k].key = name

\* CaseInsensitiveDict.__contains__
Contains(d, name) == Lower(name) \in DOMAIN d

\* CaseInsensitiveDict.__setitem__
SetItem(d, name, value) ==
    [k \in DOMAIN d \cup {Lower(name)} |->
        IF k = Lower(name) THEN [key |-> name, val |-> value] ELSE d[k]]

\* CaseInsensitiveDict.get
Get(d, name) == IF Contains(d, name) THEN d[Lower(name)].val ELSE None

\* MutableMapping.setdefault
setdefault(d, name, default) ==
    IF Contains(d, name) THEN d ELSE SetItem(d, name, default)

\* f"Bearer {token}"
Bearer(tok) == "Bearer " \o tok

\* a bug (or a fix): the token is asked for only when the header is missing
requests_auth_handler_lazy(p, r, t, a) ==
    IF Contains(r, "authorization")
    THEN [self |-> p, ok |-> TRUE, val |-> None, acq |-> 0, clock |-> t, headers |-> r]
    ELSE LET tk == token(p, t, a)
         IN  IF tk.ok
             THEN tk @@ [headers |-> SetItem(r, "authorization", Bearer(tk.val))]
             ELSE tk @@ [headers |-> r]

\* TokenProvider.requests_auth_handler: the argument of setdefault, and so
\* self.token, is evaluated before setdefault looks at the headers
requests_auth_handler(p, r, t, a) ==
    LET tk == token(p, t, a)
    IN  IF tk.ok
        THEN tk @@ [headers |-> setdefault(r, "authorization", Bearer(tk.val))]
        ELSE tk @@ [headers |-> r]

\* CaseInsensitiveDict(items): the items of a plain mapping, set one by one
RECURSIVE CaseInsensitiveDict(_)
CaseInsensitiveDict(items) ==
    IF items = << >> THEN EmptyHeaders
    ELSE SetItem(CaseInsensitiveDict(SubSeq(items, 1, Len(items) - 1)),
                 items[Len(items)][1], items[Len(items)][2])

\* the requests a caller may hand to requests_auth_handler
PreparedHeaders ==
    {CaseInsensitiveDict(<< <<"Accept", "*/*">> >>),
     CaseInsensitiveDict(<< <<"Accept", "*/*">>, <<"Authorization", "Basic abc">> >>),
     CaseInsensitiveDict(<< <<"authorization", "">> >>)}

-----------------------------------------------------------------------------
(* AppServiceTokenProvider.__init__ and the hosting contexts it probes.    *)

header == "X-Foundry-AccessToken"

\* the header items a hosting context may hold
HostingItems ==
    {<< >>, << <<"Accept", "*/*">> >>}
    \cup {<< <<n, v>> >> :
            n \in {"X-Foundry-AccessToken", "X-Foundry-Accesstoken", "x-foundry-accesstoken"},
            v \in {"", "H1", "H2"}}

\* streamlit: not importable, _get_websocket_headers() is None, or the headers
WebsocketContexts ==
    {[state |-> "ImportError", items |-> << >>], [state |-> "None", items |-> << >>]}
    \cup [state : {"headers"}, items : HostingItems]

\* flask: not importable, no request context (RuntimeError), or the headers
FlaskContexts ==
    {[state |-> "ImportError", items |-> << >>], [state |-> "RuntimeError", items |-> << >>]}
    \cup [state : {"headers"}, items : HostingItems]

\* (headers := _get_websocket_headers()) and
\* (token := CaseInsensitiveDict(headers).get(self.header)): the value, or None
WebsocketToken(ws) ==
    IF ws.state = "headers" /\ ws.items # << >>
       /\ Truthy(Get(CaseInsensitiveDict(ws.items), header))
    THEN Get(CaseInsensitiveDict(ws.items), header)
    ELSE None

\* request is not None and (token := request.headers.get(self.header)), with
\* the RuntimeError of a missing request context caught: the value, or None
FlaskToken(flask) ==
    IF flask.state = "headers" /\ Truthy(Get(CaseInsensitiveDict(flask.items), header))
    THEN Get(CaseInsensitiveDict(flask.items), header)
    ELSE None

\* a bug: the flask request is looked at before the streamlit headers
AppServiceTokenProvider_init_flask_first(ws, flask, t) ==
    IF FlaskToken(flask) # None
    THEN [ok |-> TRUE, err |-> None,
          self |-> [NoProvider EXCEPT !.kind = "app_service",
                                      !._cached = FlaskToken(flask),
                                      !._valid_until = t + APP_SERVICE_LIFETIME]]
    ELSE IF WebsocketToken(ws) # None
    THEN [ok |-> TRUE, err |-> None,
          self |-> [NoProvider EXCEPT !.kind = "app_service",
                                      !._cached = WebsocketToken(ws),
                                      !._valid_until = t + APP_SERVICE_LIFETIME]]
    ELSE [ok |-> FALSE, err |-> "TokenProviderConfigError", self |-> NoProvider]

AppServiceTokenProvider_init(ws, flask, t) ==
    IF WebsocketToken(ws) # None
    THEN [ok |-> TRUE, err |-> None,
          self |-> [NoProvider EXCEPT !.kind = "app_service",
                                      !._cached = WebsocketToken(ws),
                                      !._valid_until = t + APP_SERVICE_LIFETIME]]
    ELSE IF FlaskToken(flask) # None
    THEN [ok |-> TRUE, err |-> None,
          self |-> [NoProvider EXCEPT !.kind = "app_service",
                                      !._cached = FlaskToken(flask),
                                      !._valid_until = t + APP_SERVICE_LIFETIME]]
    ELSE [ok |-> FALSE, err |-> "TokenProviderConfigError", self |-> NoProvider]

-----------------------------------------------------------------------------
(* The scopes of an OAuth provider (lines 144-150) and the mapping of the  *)
(* provider names (lines 228-233).                                         *)

DEFAULT_OAUTH_SCOPES ==
    <<"offline_access", "compass:view", "compass:edit", "compass:discover",
      "api:write-data", "api:read-data", "build2:run-build-using-service">>

\* the scopes argument: not given (None), or a list
NoScopesArg == [given |-> FALSE, list |-> <<>>]
ScopesArg(list) == [given |-> TRUE, list |-> list]
ScopesArgs ==
    {NoScopesArg, ScopesArg(<<>>), ScopesArg(<<"custom:read">>),
     ScopesArg(<<"custom:read", "offline_access">>)}

\* self.scopes as __init__ sets it, for a grant type that passed line 138
OAuthTokenProvider_scopes(grant_type, scopes) ==
    IF grant_type = authorization_code
    THEN IF scopes.given THEN scopes.list ELSE DEFAULT_OAUTH_SCOPES
    ELSE IF scopes.given /\ scopes.list # <<>> THEN scopes.list ELSE <<>>

NoScopes ==
    [made |-> FALSE, ok |-> TRUE, grant_type |-> None, arg |-> NoScopesArg,
     scopes |-> <<>>]

\* OAuthTokenProvider(host, client_id, client_secret, grant_type, scopes)
NewOAuthScopes(client_secret, grant_type, scopes) ==
    /\ LET r == OAuthTokenProvider_init(client_secret, grant_type)
       IN  scoped' = [made |-> TRUE, ok |-> r.ok, grant_type |-> r.self.grant_type,
                      arg |-> scopes,
                      scopes |-> IF r.ok
                                 THEN OAuthTokenProvider_scopes(r.self.grant_type, scopes)
                                 ELSE <<>>]
    /\ UNCHANGED <<now, self, t0, last, registry, instances, who, threads, issued, floor>>

\* the names of the built-in providers and their classes (lines 229-231)
BuiltInProviders ==
    [k \in {"jwt", "oauth", "app_service"} |->
        CASE k = "jwt" -> "JWTTokenProvider"
          [] k = "oauth" -> "OAuthTokenProvider"
          [] k = "app_service" -> "AppServiceTokenProvider"]

\* the names an installed package may register a provider under, and the
\* classes it registers
EntryPointNames == {"jwt", "app_service", "vault"}
EntryPointClasses == {"VaultTokenProvider", "PatchedTokenProvider"}

\* what entry_point_fdt_token_provider() may return
EntryPoints == UNION {[names -> EntryPointClasses] : names \in SUBSET EntryPointNames}

\* {**a, **b}: the keys of both, and b's value where both have the key
DictMerge(a, b) ==
    [k \in DOMAIN a \cup DOMAIN b |-> IF k \in DOMAIN b THEN b[k] ELSE a[k]]

TOKEN_PROVIDER_MAPPING(external) == DictMerge(BuiltInProviders, external)

NotLoaded ==
    [loaded |-> FALSE, external |-> [k \in {} |-> ""], mapping |-> [k \in {} |-> ""]]

\* the module is imported, with the entry points installed at that moment
LoadModule(external) ==
    /\ ~registry.loaded
    /\ registry' = [loaded |-> TRUE, external |-> external,
                    mapping |-> TOKEN_PROVIDER_MAPPING(external)]
    /\ UNCHANGED <<now, self, t0, last, scoped, instances, who, threads, issued, floor>>

-----------------------------------------------------------------------------
(* The caller: one operation at a time, and the clock moving in between.   *)

\* the record of an operation (a constructor goes by the name of its class):
\* `after` names the operation before it, arg and ret are the request headers
\* handed to and left by requests_auth_handler
Op(name, ok, val, acq, arg, ret) ==
    [op |-> name, ok |-> ok, val |-> val, acq |-> acq, after |-> last.op,
     arg |-> arg, ret |-> ret]

Init ==
    /\ now = 0
    /\ self = NoProvider
    /\ t0 = -1
    /\ last = [op |-> "none", ok |-> TRUE, val |-> None, acq |-> 0, after |-> "none",
               arg |-> EmptyHeaders, ret |-> EmptyHeaders]
    /\ registry = NotLoaded
    /\ scoped = NoScopes
    /\ instances = [i \in Instances |-> NoProvider]
    /\ who = 0
    /\ threads = [th \in Threads |-> IdleThread]
    /\ issued = << >>
    /\ floor = -1

\* time passes
Tick(t) ==
    /\ t \in TimePoints
    /\ t > now
    /\ now' = t
    /\ UNCHANGED <<self, t0, last, others>>

\* JWTTokenProvider(host, jwt)
NewJWT(jwt) ==
    /\ self.kind = "none"
    /\ self' = JWTTokenProvider_init(jwt)
    /\ last' = Op("JWTTokenProvider", TRUE, None, 0, EmptyHeaders, EmptyHeaders)
    /\ t0' = now
    /\ UNCHANGED <<now, others>>

\* OAuthTokenProvider(host, client_id, client_secret, grant_type)
NewOAuth(client_secret, grant_type) ==
    /\ self.kind = "none"
    /\ LET r == OAuthTokenProvider_init(client_secret, grant_type)
       IN  /\ self' = r.self
           /\ last' = Op("OAuthTokenProvider", r.ok, r.err, 0, EmptyHeaders, EmptyHeaders)
           /\ t0' = IF r.ok THEN now ELSE t0
    /\ UNCHANGED <<now, others>>

\* AppServiceTokenProvider(host)
NewAppService(ws, flask) ==
    /\ self.kind = "none"
    /\ LET r == AppServiceTokenProvider_init(ws, flask, now)
       IN  /\ self' = r.self
           /\ last' = Op("AppServiceTokenProvider", r.ok, r.err, 0, EmptyHeaders, EmptyHeaders)
           /\ t0' = IF r.ok THEN now ELSE t0
    /\ UNCHANGED <<now, others>>

\* provider.token
Token(a) ==
    /\ self.kind # "none"
    /\ LET r == token(self, now, a)
       IN  /\ self' = r.self
           /\ last' = Op("token", r.ok, r.val, r.acq, EmptyHeaders, EmptyHeaders)
           /\ now' = r.clock
    /\ UNCHANGED <<t0, others>>

\* provider.invalidate_cache()
InvalidateCache ==
    /\ self.kind \in {"oauth", "app_service"}
    /\ self' = invalidate_cache(self)
    /\ last' = Op("invalidate_cache", TRUE, None, 0, EmptyHeaders, EmptyHeaders)
    /\ UNCHANGED <<now, t0, others>>

\* provider.requests_auth_handler(r) on a new request with headers h
RequestsAuthHandler(h, a) ==
    /\ self.kind # "none"
    /\ LET r == requests_auth_handler(self, h, now, a)
       IN  /\ self' = r.self
           /\ last' = Op("requests_auth_handler", r.ok, r.val, r.acq, h, r.headers)
           /\ now' = r.clock
    /\ UNCHANGED <<t0, others>>

\* the answers that matter to the instance: only an OAuth provider asks
AnswersOf(p) ==
    IF p.kind = "oauth" THEN Answers(now)
    ELSE {[status |-> "raise", token |-> None, expires_in |-> 0, clock |-> now]}

Construct ==
    \/ \E jwt \in JWTs : NewJWT(jwt)
    \/ \E s \in Secrets, g \in GrantTypeArgs : NewOAuth(s, g)
    \/ \E ws \in WebsocketContexts, fl \in FlaskContexts : NewAppService(ws, fl)

Next ==
    \/ Construct
    \/ \E t \in TimePoints : Tick(t)
    \/ \E a \in AnswersOf(self) : Token(a)
    \/ InvalidateCache

Spec == Init /\ [][Next]_vars

\* the provider as the auth hook of outgoing requests, in its first hour
NextAuth ==
    \/ Construct
    \/ \E t \in TimePoints : t < APP_SERVICE_LIFETIME /\ Tick(t)
    \/ \E h \in PreparedHeaders : \E a \in AnswersOf(self) : RequestsAuthHandler(h, a)

SpecAuth == Init /\ [][NextAuth]_vars

\* the load of the module and the construction of OAuth providers with scopes
NextConfig ==
    \/ \E external \in EntryPoints : LoadModule(external)
    \/ \E s \in Secrets, g \in GrantTypeArgs, sc \in ScopesArgs : NewOAuthScopes(s, g, sc)

SpecConfig == Init /\ [][NextConfig]_vars

\* the instance is of a class derived from CachedTokenProvider
Cached(p) == p.kind \in {"oauth", "app_service"}

-----------------------------------------------------------------------------
(* Several providers side by side.  _cached and _valid_until are class     *)
(* attributes of CachedTokenProvider (lines 73-74) that no code assigns:   *)
(* an instance reads them until an assignment to self._cached or           *)
(* self._valid_until (lines 81-82, 93, 203-204, 213-214) binds the         *)
(* attribute on the instance itself.                                       *)

\* as if the assignments were to the attributes of the class
SetAttrs_of_class(all, i, p) ==
    [j \in DOMAIN all |->
        IF j = i THEN p
        ELSE IF Cached(all[j]) /\ Cached(p)
             THEN [all[j] EXCEPT !._cached = p._cached, !._valid_until = p._valid_until]
             ELSE all[j]]

\* an operation on the instance i has bound the attributes p on it
SetAttrs(all, i, p) == [all EXCEPT ![i] = p]

\* the answers to a token request of one of several instances
AnswersAt(p) == {a \in AnswersOf(p) : a.clock = now}

NewOAuthAt(i, client_secret, grant_type) ==
    /\ instances[i].kind = "none"
    /\ LET r == OAuthTokenProvider_init(client_secret, grant_type)
       IN  /\ r.ok
           /\ instances' = SetAttrs(instances, i, r.self)
           /\ last' = Op("OAuthTokenProvider", TRUE, None, 0, EmptyHeaders, EmptyHeaders)
    /\ who' = i
    /\ UNCHANGED <<now, self, t0, registry, scoped, threads, issued, floor>>

NewAppServiceAt(i, ws, flask) ==
    /\ instances[i].kind = "none"
    /\ LET r == AppServiceTokenProvider_init(ws, flask, now)
       IN  /\ r.ok
           /\ instances' = SetAttrs(instances, i, r.self)
           /\ last' = Op("AppServiceTokenProvider", TRUE, None, 0, EmptyHeaders,
                         EmptyHeaders)
    /\ who' = i
    /\ UNCHANGED <<now, self, t0, registry, scoped, threads, issued, floor>>

TokenAt(i, a) ==
    /\ instances[i].kind # "none"
    /\ LET r == token(instances[i], now, a)
       IN  /\ instances' = SetAttrs(instances, i, r.self)
           /\ last' = Op("token", r.ok, r.val, r.acq, EmptyHeaders, EmptyHeaders)
           /\ now' = r.clock
    /\ who' = i
    /\ UNCHANGED <<self, t0, registry, scoped, threads, issued, floor>>

InvalidateCacheAt(i) ==
    /\ Cached(instances[i])
    /\ instances' = SetAttrs(instances, i, invalidate_cache(instances[i]))
    /\ last' = Op("invalidate_cache", TRUE, None, 0, EmptyHeaders, EmptyHeaders)
    /\ who' = i
    /\ UNCHANGED <<now, self, t0, registry, scoped, threads, issued, floor>>

\* the header provider alone
NextAppService ==
    \/ \E ws \in WebsocketContexts, fl \in FlaskContexts : NewAppService(ws, fl)
    \/ \E t \in TimePoints : Tick(t)
    \/ \E a \in AnswersOf(self) : Token(a)
    \/ InvalidateCache

SpecAppService == Init /\ [][NextAppService]_vars

\* the values a subclass or a caller gives the attribute _clock_skew
ClockSkews == {0, 60}

\* provider._clock_skew = v
SetClockSkew(v) ==
    /\ Cached(self)
    /\ self._clock_skew # v
    /\ self' = [self EXCEPT !._clock_skew = v]
    /\ last' = Op("_clock_skew", TRUE, None, 0, EmptyHeaders, EmptyHeaders)
    /\ UNCHANGED <<now, t0, others>>

\* a cached provider whose _clock_skew is set to other values in between
NextSkew ==
    \/ NewOAuth("xyz", "client_credentials")
    \/ \E ws \in WebsocketContexts, fl \in FlaskContexts : NewAppService(ws, fl)
    \/ \E t \in TimePoints : Tick(t)
    \/ \E a \in AnswersAt(self) : Token(a)
    \/ InvalidateCache
    \/ \E v \in ClockSkews : SetClockSkew(v)

SpecSkew == Init /\ [][NextSkew]_vars

NextInstances ==
    \/ \E t \in TimePoints : t < APP_SERVICE_LIFETIME /\ Tick(t)
    \/ \E i \in Instances :
          \/ NewOAuthAt(i, "xyz", "client_credentials")
          \/ \E ws \in WebsocketContexts, fl \in FlaskContexts : NewAppServiceAt(i, ws, fl)
          \/ \E a \in AnswersAt(instances[i]) : TokenAt(i, a)
          \/ InvalidateCacheAt(i)

SpecInstances == Init /\ [][NextInstances]_vars

-----------------------------------------------------------------------------
(* Concurrent callers of one provider.  Nothing in the module locks, so a  *)
(* thread may be switched out between any two reads or writes of the       *)
(* attributes.  token() is                                                 *)
(*   line 92: read self._cached; read self._valid_until and the clock;     *)
(*   line 93: call self._request_token(); wait for its answer; store       *)
(*            self._cached; store self._valid_until (the two targets of    *)
(*            the assignment, left to right);                              *)
(*   line 94: read self._cached and return it;                             *)
(* invalidate_cache() is the store of line 81 and the store of line 82.    *)

\* the token requests a behaviour may make
MaxAcquisitions == 2

\* the token the k-th request is answered with
TokenOf(k) == "T" \o ToString(k)

\* the expiry of a request that is not answered yet, or has failed
NotIssued == -2

\* `not self._cached` (line 92)
token_L92_cached(p) == ~Truthy(p._cached)

\* a bug: an expiry in the past is what counts
token_L92_valid_past(p, t) == p._valid_until < t

\* `self._valid_until < time.time() + 10` (line 92)
token_L92_valid(p, t) == p._valid_until < t + REFRESH_MARGIN

\* the other variables of a step of a thread
ThreadFrame == UNCHANGED <<now, t0, last, registry, scoped, instances, who>>

\* provider.token is called
CallToken(th) ==
    /\ self.kind = "oauth"
    /\ threads[th].pc = "idle"
    /\ threads' = [threads EXCEPT ![th] =
                      [IdleThread EXCEPT !.pc = "L92_cached", !.op = "token",
                                         !.seen = floor]]
    /\ UNCHANGED <<self, issued, floor>>
    /\ ThreadFrame

L92_cached(th) ==
    /\ threads[th].pc = "L92_cached"
    /\ threads' = [threads EXCEPT ![th].saw = self._cached,
                                  ![th].pc = IF token_L92_cached(self) THEN "L93_call"
                                             ELSE "L92_valid"]
    /\ UNCHANGED <<self, issued, floor>>
    /\ ThreadFrame

L92_valid(th) ==
    /\ threads[th].pc = "L92_valid"
    /\ threads' = [threads EXCEPT ![th].pc = IF token_L92_valid(self, now) THEN "L93_call"
                                             ELSE "L94"]
    /\ UNCHANGED <<self, issued, floor>>
    /\ ThreadFrame

\* self._request_token() is called: the request begins
L93_call(th) ==
    /\ threads[th].pc = "L93_call"
    /\ Len(issued) < MaxAcquisitions
    /\ issued' = Append(issued, NotIssued)
    /\ threads' = [threads EXCEPT ![th].acq = Len(issued) + 1, ![th].pc = "L93_wait"]
    /\ UNCHANGED <<self, floor>>
    /\ ThreadFrame

\* self._request_token() returns the token of this request and its expiry,
\* or raises
L93_return(th, status, expires_in) ==
    /\ threads[th].pc = "L93_wait"
    /\ LET a == [status |-> status, token |-> TokenOf(threads[th].acq),
                 expires_in |-> expires_in, clock |-> now]
           r == _request_token(self, a)
       IN  IF r.ok
           THEN /\ threads' = [threads EXCEPT ![th].tok = r.token, ![th].exp = r.expiry,
                                              ![th].pc = "L93_cached"]
                /\ issued' = [issued EXCEPT ![threads[th].acq] = r.expiry]
           ELSE /\ threads' = [threads EXCEPT ![th].ok = FALSE, ![th].ret = r.err,
                                              ![th].pc = "idle"]
                /\ UNCHANGED issued
    /\ UNCHANGED <<self, floor>>
    /\ ThreadFrame

\* self._cached = <the token returned>
L93_cached(th) ==
    /\ threads[th].pc = "L93_cached"
    /\ self' = [self EXCEPT !._cached = threads[th].tok]
    /\ threads' = [threads EXCEPT ![th].tok = None, ![th].pc = "L93_valid"]
    /\ UNCHANGED <<issued, floor>>
    /\ ThreadFrame

\* self._valid_until = <the expiry returned>
L93_valid(th) ==
    /\ threads[th].pc = "L93_valid"
    /\ self' = [self EXCEPT !._valid_until = threads[th].exp]
    /\ threads' = [threads EXCEPT ![th].exp = -1, ![th].pc = "L94"]
    /\ UNCHANGED <<issued, floor>>
    /\ ThreadFrame

\* return self._cached
L94(th) ==
    /\ threads[th].pc = "L94"
    /\ threads' = [threads EXCEPT ![th].ret = self._cached, ![th].pc = "idle"]
    /\ UNCHANGED <<self, issued, floor>>
    /\ ThreadFrame

\* provider.invalidate_cache is called
CallInvalidateCache(th) ==
    /\ Cached(self)
    /\ threads[th].pc = "idle"
    /\ threads' = [threads EXCEPT ![th] =
                      [IdleThread EXCEPT !.pc = "L81", !.op = "invalidate_cache",
                                         !.mark = Len(issued)]]
    /\ UNCHANGED <<self, issued, floor>>
    /\ ThreadFrame

\* self._cached = None
L81(th) ==
    /\ threads[th].pc = "L81"
    /\ self' = [self EXCEPT !._cached = None]
    /\ threads' = [threads EXCEPT ![th].pc = "L82"]
    /\ UNCHANGED <<issued, floor>>
    /\ ThreadFrame

\* self._valid_until = -1, and invalidate_cache returns
L82(th) ==
    /\ threads[th].pc = "L82"
    /\ self' = [self EXCEPT !._valid_until = UNSET_VALID_UNTIL]
    /\ threads' = [threads EXCEPT ![th].mark = 0, ![th].pc = "idle"]
    /\ floor' = IF threads[th].mark > floor THEN threads[th].mark ELSE floor
    /\ UNCHANGED issued
    /\ ThreadFrame

\* a step of a thread that is in token()
TokenStep(th) ==
    \/ CallToken(th)
    \/ L92_cached(th)
    \/ L92_valid(th)
    \/ L93_call(th)
    \/ \E status \in {"raise", "error", "ok"}, expires_in \in ExpiresIn :
          L93_return(th, status, expires_in)
    \/ L93_cached(th)
    \/ L93_valid(th)
    \/ L94(th)

\* a step of a thread that is in invalidate_cache()
InvalidateStep(th) ==
    \/ CallInvalidateCache(th)
    \/ L81(th)
    \/ L82(th)

\* threads that call token() of one OAuth provider, all within one reading
\* of the clock
NextRace ==
    \/ NewOAuth("xyz", "client_credentials")
    \/ \E th \in Threads : TokenStep(th)

SpecRace == Init /\ [][NextRace]_vars

\* threads that call token() and invalidate_cache() of one OAuth provider,
\* all within one reading of the clock
NextThreads ==
    \/ NewOAuth("xyz", "client_credentials")
    \/ \E th \in Threads : TokenStep(th)
    \/ \E th \in Threads : InvalidateStep(th)

SpecThreads == Init /\ [][NextThreads]_vars

-----------------------------------------------------------------------------
(* The claims.                                                             *)

\* the record holds a token (not None) that does not expire within the margin
StillValid(p, t) == p._cached # None /\ p._valid_until >= t + 10

\* the same, with a token that is not the empty string either
StillValidNonEmpty(p, t) == p._cached # None /\ p._cached # "" /\ p._valid_until >= t + 10

\* C1 as stated: of two token() calls in succession, the second one, finding
\* the record of the first still valid (token set, expiresAt >= now + 10),
\* performs no acquisition and returns the same token.
C1_AsStated ==
    [][\A a \in AnswersOf(self) :
          (Cached(self) /\ last.op = "token" /\ last.ok /\ StillValid(self, now) /\ Token(a))
          => (last'.acq = 0 /\ last'.ok /\ last'.val = last.val /\ last.acq + last'.acq <= 1)]_vars

\* C1 (amended): of two token() calls in succession, the second one, finding
\* the record of the first still valid (token set and not the empty string,
\* expiresAt >= now + 10), performs no acquisition and returns the same token:
\* the two calls together perform at most one acquisition.
C1_SecondCallIsCacheHit ==
    [][\A a \in AnswersOf(self) :
          (Cached(self) /\ last.op = "token" /\ last.ok /\ StillValidNonEmpty(self, now) /\ Token(a))
          => (last'.acq = 0 /\ last'.ok /\ last'.val = last.val /\ last.acq + last'.acq <= 1)]_vars

\* two token() calls in succession, the first acquired, the second did not
C1_Witness ==
    /\ Cached(self) /\ last.op = "token" /\ last.after = "token"
    /\ last.ok /\ last.acq = 0 /\ StillValidNonEmpty(self, now)

\* C2: invalidate_cache() leaves the record (None, -1), and the token() call
\* that follows it performs exactly one acquisition.
C2_InvalidateThenTokenAcquiresOnce ==
    /\ last.op = "invalidate_cache" => (self._cached = None /\ self._valid_until = -1)
    /\ (last.op = "token" /\ last.after = "invalidate_cache") => last.acq = 1

\* token() right after invalidate_cache() has acquired a token
C2_Witness ==
    /\ last.op = "token" /\ last.after = "invalidate_cache"
    /\ last.ok /\ last.acq = 1 /\ self._cached = last.val

\* C3 as stated: whenever token() of a cached provider returns, the record's
\* expiresAt is at least now + 10, the call that has just acquired it included.
C3_AsStated ==
    [][\A a \in AnswersOf(self) :
          (Cached(self) /\ Token(a) /\ last'.ok) => self'._valid_until >= now' + 10]_vars

\* C3 (amended): token() never returns a token it found cached whose record
\* has expiresAt less than now + 10: it then acquires, and returns the token
\* acquire() has just returned with the record acquire() has returned,
\* whatever its expiry.
C3_ExpiredRecordIsNotServed ==
    [][\A a \in AnswersOf(self) :
          (Cached(self) /\ Token(a))
          => /\ self._valid_until < now + 10 => last'.acq = 1
             /\ (last'.ok /\ last'.acq = 0)
                   => (self'._valid_until >= now' + 10 /\ last'.val = self._cached)
             /\ (last'.ok /\ last'.acq = 1)
                   => (last'.val = a.token /\ self'._cached = a.token
                       /\ self'._valid_until = a.clock + a.expires_in)]_vars

\* token() has just acquired a record that expires within the margin, and
\* has returned its token
C3_Witness ==
    /\ Cached(self) /\ last.op = "token" /\ last.ok /\ last.acq = 1
    /\ self._cached = last.val /\ self._valid_until < now + 10

\* C4: when acquire() fails inside token(), the call fails with that error
\* after one attempt, the record is what it was, and the token() call after
\* a failed one attempts the acquisition again.
C4_FailedAcquisitionLeavesRecord ==
    [][\A a \in AnswersOf(self) :
          (Cached(self) /\ Token(a))
          => /\ ~last'.ok => (self' = self /\ last'.acq = 1)
             /\ (last.op = "token" /\ ~last.ok) => last'.acq = 1]_vars

\* a failed token() call of an OAuth provider that holds an expired record
C4_Witness ==
    /\ self.kind = "oauth" /\ last.op = "token" /\ ~last.ok /\ last.acq = 1
    /\ last.val = "FoundryAPIError" /\ Truthy(self._cached)

\* C5: every token() call of the static provider returns the token given at
\* construction and performs no acquisition.
C5_StaticTokenIsReturned ==
    (self.kind = "jwt" /\ last.op = "token")
        => (last.ok /\ last.val = self._jwt /\ last.acq = 0
            /\ self._cached = None /\ self._valid_until = -1)

\* the static provider has answered two token() calls in succession
C5_Witness ==
    /\ self.kind = "jwt" /\ last.op = "token" /\ last.after = "token"
    /\ last.val = "J2"

\* the header names that read "authorization" whatever their case
AuthorizationNames == {"authorization", "Authorization", "AUTHORIZATION"}

HasAuthorization(d) == \E k \in DOMAIN d : d[k].key \in AuthorizationNames

\* the headers as a set of (name, value) items
Items(d) == {<<d[k].key, d[k].val>> : k \in DOMAIN d}

\* the token the provider holds
CurrentToken(p) == IF p.kind = "jwt" THEN p._jwt ELSE p._cached

\* C6: requests_auth_handler leaves a request that has an authorization
\* header (in any case) as it is; to a request without one it adds
\* authorization: Bearer <token> with the provider's current token and changes
\* nothing else; applied again to the request it has returned, whatever the
\* provider then answers, it gives the same headers.
C6_AuthHeaderSetUnlessPresent ==
    [][\A h \in {last'.arg} : \A a \in AnswersOf(self) :
          (last'.op = "requests_auth_handler" /\ RequestsAuthHandler(h, a))
          => /\ HasAuthorization(h) => last'.ret = h
             /\ (~HasAuthorization(h) /\ last'.ok)
                   => /\ Items(last'.ret)
                           = Items(h) \cup {<<"authorization", "Bearer " \o last'.val>>}
                      /\ last'.val = CurrentToken(self')
             /\ last'.ok
                   => \A b \in AnswersOf(self') :
                         requests_auth_handler(self', last'.ret, now', b).headers = last'.ret]_vars

\* the handler has given a request without authorization header the Bearer
\* header of the token just acquired, beside the header the request had
C6_Witness ==
    /\ last.op = "requests_auth_handler" /\ last.ok /\ last.acq = 1
    /\ ~HasAuthorization(last.arg) /\ last.val = "T2"
    /\ <<"authorization", "Bearer T2">> \in Items(last.ret)
    /\ <<"Accept", "*/*">> \in Items(last.ret)

\* C7 as stated: on a request that carries an authorization header,
\* requests_auth_handler performs no acquisition, leaves the cached record
\* unchanged and does not fail.
C7_AsStated ==
    [][\A h \in {last'.arg} : \A a \in AnswersOf(self) :
          (last'.op = "requests_auth_handler" /\ HasAuthorization(h) /\ RequestsAuthHandler(h, a))
          => /\ last'.acq = 0 /\ last'.ok
             /\ self'._cached = self._cached /\ self'._valid_until = self._valid_until]_vars

\* C7 (amended): on a request that carries an authorization header,
\* requests_auth_handler leaves the headers as they are but still evaluates
\* token(): it performs no acquisition, leaves the cached record unchanged and
\* does not fail when the provider is static or its record is valid (token
\* not empty, expiresAt >= now + 10); otherwise it performs one acquisition,
\* which replaces the record when it succeeds and makes the call fail, the
\* record unchanged, when it fails.
C7_HeaderPresentStillEvaluatesToken ==
    [][\A h \in {last'.arg} : \A a \in AnswersOf(self) :
          (last'.op = "requests_auth_handler" /\ HasAuthorization(h) /\ RequestsAuthHandler(h, a))
          => /\ last'.ret = h
             /\ IF self.kind = "jwt" \/ StillValidNonEmpty(self, now)
                THEN /\ last'.acq = 0 /\ last'.ok
                     /\ self'._cached = self._cached /\ self'._valid_until = self._valid_until
                ELSE /\ last'.acq = 1
                     /\ last'.ok => (self'._cached = a.token
                                     /\ self'._valid_until = a.clock + a.expires_in)
                     /\ ~last'.ok => (self'._cached = self._cached
                                      /\ self'._valid_until = self._valid_until)]_vars

\* the handler has failed on a request that carries an authorization header,
\* because the acquisition it has made failed
C7_Witness ==
    /\ last.op = "requests_auth_handler" /\ HasAuthorization(last.arg)
    /\ last.acq = 1 /\ ~last.ok /\ last.ret = last.arg

\* C8: OAuthTokenProvider(client_secret=None, grant_type="client_credentials")
\* raises TokenProviderConfigError and leaves no instance, so no instance has
\* that grant type without a secret; with authorization_code (given or by
\* default) the missing secret is accepted.
C8_ClientCredentialsNeedSecret ==
    [][/\ \A s \in Secrets, g \in GrantTypeArgs :
             NewOAuth(s, g)
             => /\ (g = "client_credentials" /\ s = None)
                      => (~last'.ok /\ last'.val = "TokenProviderConfigError"
                          /\ self'.kind = "none")
                /\ (g \in {None, "authorization_code"} /\ s = None)
                      => (last'.ok /\ self'.kind = "oauth" /\ self'._client_secret = None
                          /\ self'.grant_type = "FoundryOAuthGrantType.authorization_code")
       /\ ~(self'.kind = "oauth" /\ self'._client_secret = None
            /\ self'.grant_type = "FoundryOAuthGrantType.client_credentials")]_vars

\* the construction of an OAuth provider has failed
C8_Witness ==
    /\ last.op = "OAuthTokenProvider" /\ ~last.ok
    /\ last.val = "TokenProviderConfigError" /\ self.kind = "none"

\* the header provider still holds the record of its construction
Untouched(p) == p.kind = "app_service" /\ p._cached # None /\ p._valid_until = t0 + 3600

\* C9 as stated: the header provider, its cache not invalidated, returns the
\* header token on every token() call at now <= t0 + 3600 and raises the
\* configuration error on every call after that.
C9_AsStated ==
    [][\A a \in AnswersOf(self) :
          (Untouched(self) /\ Token(a))
          => IF now <= t0 + 3600
             THEN last'.ok /\ last'.val = self._cached /\ last'.acq = 0
             ELSE ~last'.ok /\ last'.val = "TokenProviderConfigError"]_vars

\* C9 (amended): the header provider, its cache not invalidated, returns the
\* header token on every token() call at now <= t0 + 3590 and raises the
\* configuration error on every call after that (now > t0 + 3590).
C9_HeaderTokenServedUntilMargin ==
    [][\A a \in AnswersOf(self) :
          (Untouched(self) /\ Token(a))
          => IF now <= t0 + 3590
             THEN last'.ok /\ last'.val = self._cached /\ last'.acq = 0
             ELSE ~last'.ok /\ last'.val = "TokenProviderConfigError"]_vars

\* token() of the header provider has raised before the hour was over
C9_Witness ==
    /\ Untouched(self) /\ last.op = "token" /\ ~last.ok
    /\ last.val = "TokenProviderConfigError" /\ now > t0 + 3590 /\ now <= t0 + 3600

-----------------------------------------------------------------------------
\* C11 (as stated): an OAuth provider of grant type authorization_code has
\* the caller's scopes appended to DEFAULT_OAUTH_SCOPES as its scopes (and
\* DEFAULT_OAUTH_SCOPES alone when the caller gave none); one of grant type
\* client_credentials has the caller's scopes as they are, and the empty list
\* when the caller gave none.  Lines 144-148 put the caller's list in the
\* place of the defaults instead of appending it.
C11_AsStated ==
    (scoped.made /\ scoped.ok) =>
        /\ scoped.grant_type = authorization_code =>
              scoped.scopes = DEFAULT_OAUTH_SCOPES \o
                              (IF scoped.arg.given THEN scoped.arg.list ELSE <<>>)
        /\ scoped.grant_type = client_credentials =>
              scoped.scopes = (IF scoped.arg.given THEN scoped.arg.list ELSE <<>>)

-----------------------------------------------------------------------------
\* C12 (as stated): whatever the entry points contribute, the names "jwt",
\* "oauth" and "app_service" of TOKEN_PROVIDER_MAPPING are bound to the
\* built-in classes.  The entry points are unpacked after the built-in
\* entries (line 232), so an entry point of one of these names takes its place.
C12_AsStated ==
    registry.loaded =>
        \A k \in DOMAIN BuiltInProviders : registry.mapping[k] = BuiltInProviders[k]

-----------------------------------------------------------------------------
\* the cached token and its expiry as the instance p holds them
Record(p) == <<p._cached, p._valid_until>>

\* C13: the cached token and its expiry belong to one instance: token() and
\* invalidate_cache() on an instance leave the cached token and the expiry of
\* every other instance, of the same class or of another, as they were, and
\* a newly constructed OAuth provider has no token and the expiry -1 whatever
\* the other instances have cached.
C13_RecordIsPerInstance ==
    [][\A i \in Instances :
          /\ ((\E a \in AnswersAt(instances[i]) : TokenAt(i, a)) \/ InvalidateCacheAt(i))
                => \A j \in Instances \ {i} : Record(instances'[j]) = Record(instances[j])
          /\ NewOAuthAt(i, "xyz", "client_credentials")
                => /\ Record(instances'[i]) = <<None, UNSET_VALID_UNTIL>>
                   /\ \A j \in Instances \ {i} :
                         Record(instances'[j]) = Record(instances[j])]_vars

\* the second instance has acquired a token while the first, of the other
\* class, holds another one
C13_Witness ==
    /\ who = 2 /\ last.op = "token" /\ last.ok /\ last.acq = 1
    /\ instances[2].kind = "oauth" /\ Truthy(instances[2]._cached)
    /\ instances[1].kind = "app_service" /\ Truthy(instances[1]._cached)
    /\ Record(instances[1]) # Record(instances[2])

-----------------------------------------------------------------------------
-----------------------------------------------------------------------------
\* the header provider p cannot serve its record at the clock reading t: the
\* record is cleared, or the comparison of line 92 deems it expired
Spent(p, t) ==
    p.kind = "app_service" /\ (~Truthy(p._cached) \/ p._valid_until < t + 10)

\* C15: the header provider never acquires a token: the only token and
\* expiry it ever holds are those set at construction (or none, once
\* cleared); once the record has expired or invalidate_cache() has been
\* called, it stays so as the clock moves on, and every token() call then
\* raises the configuration error and leaves the record as it is.
C15_HeaderProviderNeverRenews ==
    [][/\ self.kind = "app_service" =>
             /\ Record(self') \in {Record(self), <<None, UNSET_VALID_UNTIL>>}
             /\ Spent(self, now) => Spent(self', now')
       /\ \A a \in AnswersOf(self) :
             (Token(a) /\ Spent(self, now)) =>
                 /\ ~last'.ok /\ last'.val = "TokenProviderConfigError"
                 /\ last'.acq = 1
                 /\ self' = self
       /\ (InvalidateCache /\ self.kind = "app_service") => Spent(self', now')]_vars

\* token() has raised for the second time in a row on the expired record,
\* which is still there
C15_Witness ==
    /\ self.kind = "app_service" /\ last.op = "token" /\ last.after = "token"
    /\ ~last.ok /\ last.val = "TokenProviderConfigError"
    /\ Truthy(self._cached) /\ self._valid_until = t0 + 3600 /\ self._valid_until < now

-----------------------------------------------------------------------------
\* the spellings of the access token header in this model
AccessTokenNames ==
    {"X-Foundry-AccessToken", "X-Foundry-Accesstoken", "x-foundry-accesstoken"}

\* what a hosting context offers: the value of its access token header when
\* the context is there and the value is not empty, None otherwise (the
\* context is not importable, gives no headers or raises RuntimeError, or the
\* header is missing or empty)
Offered(ctx) ==
    IF /\ ctx.state = "headers"
       /\ \E k \in DOMAIN ctx.items :
             ctx.items[k][1] \in AccessTokenNames /\ ctx.items[k][2] # ""
    THEN LET k == CHOOSE k \in DOMAIN ctx.items :
                     ctx.items[k][1] \in AccessTokenNames /\ ctx.items[k][2] # ""
         IN  ctx.items[k][2]
    ELSE None

-----------------------------------------------------------------------------
\* the thread has returned from token() with a value
Returned(th) ==
    threads[th].pc = "idle" /\ threads[th].op = "token" /\ threads[th].ok

\* C17: nothing makes the check, the request and the store of token() one
\* step: a caller that finds no token cached, or an expiry less than 10
\* seconds away, goes on to request a token whatever the other callers are
\* doing, its request is one more request of its own, and every caller that
\* gets to the end of token() returns a token.  So two callers of a provider
\* with nothing cached both request a token, and both return one.
C17_EveryCallerAcquires ==
    [][\A th \in Threads :
          /\ (L92_cached(th) /\ self._cached \in {None, ""})
                => threads'[th].pc = "L93_call"
          /\ (L92_valid(th) /\ self._valid_until < now + 10)
                => threads'[th].pc = "L93_call"
          /\ L93_call(th) =>
                /\ Len(issued') = Len(issued) + 1
                /\ \A o \in Threads \ {th} : threads'[th].acq # threads[o].acq
          /\ L94(th) => (threads'[th].ok /\ Truthy(threads'[th].ret))]_vars

\* both callers have found nothing cached, both have made a request of
\* their own, and both have returned a token
C17_Witness ==
    /\ \A th \in Threads :
          /\ Returned(th) /\ threads[th].saw = None
          /\ threads[th].acq > 0 /\ Truthy(threads[th].ret)
    /\ threads[1].acq # threads[2].acq

-----------------------------------------------------------------------------
\* C18 (as stated): whatever the interleaving of concurrent token() and
\* invalidate_cache() calls, the cached token and expiry are (None, -1) or
\* the token and the expiry that one request returned together.  Stated of
\* the moments when no call is under way, which leaves out the states
\* between the two stores of one call; the stores of line 93 and of lines
\* 81-82 are separate, so the pair is a mix of two calls all the same.
C18_AsStated ==
    (Cached(self) /\ \A th \in Threads : threads[th].pc = "idle") =>
        \/ Record(self) = <<None, UNSET_VALID_UNTIL>>
        \/ \E k \in 1..Len(issued) : Record(self) = <<TokenOf(k), issued[k]>>

-----------------------------------------------------------------------------
\* C19 (as stated): a token() call that returns without raising returns a
\* token that is not None, whatever the interleaving with concurrent
\* invalidate_cache() and token() calls (every request returns a token that
\* is set).  Line 94 reads self._cached again after the check or the store,
\* and an invalidate_cache() in between makes it None.
C19_AsStated ==
    \A th \in Threads : Returned(th) => threads[th].ret # None

-----------------------------------------------------------------------------
\* C20 (as stated): once an invalidate_cache() call has returned, a token()
\* call that starts afterwards returns a token of a request that began after
\* that invalidation.  Stated of the calls that return a token, and counting
\* as "before" only the requests begun before the invalidation started; a
\* request in flight during the invalidation stores its token afterwards.
C20_AsStated ==
    \A th \in Threads :
        (Returned(th) /\ threads[th].seen >= 0 /\ threads[th].ret # None) =>
            \E k \in (threads[th].seen + 1)..Len(issued) : threads[th].ret = TokenOf(k)

=============================================================================
